---- MODULE Spec2Model ----
(***************************************************************************)
(* A model of the origami crate: the Semigroup / Monoid / Reducer traits   *)
(* and their instances (src/src/traits.rs), the newtype wrappers           *)
(* (src/src/wrappers.rs) and the iterator folds (src/src/iter.rs).         *)
(*                                                                         *)
(* Representation of Rust values:                                          *)
(*   ()                      <<>>                                          *)
(*   (a,) (a,b) (a,b,c)      <<a>>  <<a,b>>  <<a,b,c>>                     *)
(*   None / Some(x)          <<>> / <<x>>                                  *)
(*   String, &str            sequence of characters                        *)
(*   Vec<T>, &[T]            sequence of elements                          *)
(*   Sum(x), Min(x), ...     <<x>>   (tuple struct, field .0 is [1])       *)
(* A type is a tuple whose first component names the type constructor,     *)
(* e.g. <<"Sum">>, <<"Option", <<"String">>>>, <<"Tuple2", A, B>>.         *)
(* The integer carrier is the two's-complement type of Bits bits (i8).     *)
(* An evaluation either returns a value or panics (unwinds).               *)
(***************************************************************************)
EXTENDS Integers, Sequences, FiniteSets

VARIABLES overflowChecks, ty, iter, args, op, target, result, pc

vars == <<overflowChecks, ty, iter, args, op, target, result, pc>>

(* ---------------------------- bounds ----------------------------------- *)
MaxLen == 3
MaxStr == 1
Small == 2
Bits == 8

(* ------------------------- outcomes of a call -------------------------- *)
Returned(x) == <<"returned", x>>

Panic == <<"panic">>

Nil == <<>>

None == <<>>

Some(x) == <<x>>

\* f(r) for the constructors Some(..), (..,), Sum(..): a panic inside unwinds
Wrap(r) == IF r = Panic THEN Panic ELSE Returned(<<r[2]>>)

\* a tuple expression (r1, .., rn): any panicking component unwinds
TupleOf(rs) ==
  IF \E i \in DOMAIN rs : rs[i] = Panic THEN Panic
  ELSE Returned([i \in DOMAIN rs |-> rs[i][2]])

(* ----------------------- the integer carrier --------------------------- *)
Pow2(n) == 2 ^ n

min_value == 0 - Pow2(Bits - 1)

max_value == Pow2(Bits - 1) - 1

wrapping(n) == ((n - min_value) % Pow2(Bits)) + min_value

\* the result of `+` / `*` whose mathematical value is n
arith(n) ==
  IF n >= min_value /\ n <= max_value THEN Returned(n)
  ELSE IF overflowChecks THEN Panic ELSE Returned(wrapping(n))

\* mutation: the comparison is inverted
cmp_min_bug(x, y) == IF x <= y THEN y ELSE x

cmp_min(x, y) == IF x <= y THEN x ELSE y

cmp_max(x, y) == IF y >= x THEN y ELSE x

push_str(s, v) == s \o v

RECURSIVE extend(_, _)
extend(s, it) == IF it = <<>> THEN s ELSE extend(Append(s, Head(it)), Tail(it))

to_owned(v) == [i \in 1..Len(v) |-> v[i]]

(* ------------------------------ types ---------------------------------- *)
Unit == <<"Unit">>
String == <<"String">>
Vec == <<"Vec">>
Product == <<"Product">>
Sum == <<"Sum">>
All == <<"All">>
Any == <<"Any">>
Min == <<"Min">>
Max == <<"Max">>
First == <<"First">>
Last == <<"Last">>
Option(T) == <<"Option", T>>
Tuple1(A) == <<"Tuple1", A>>
Tuple2(A, B) == <<"Tuple2", A, B>>
Tuple3(A, B, C) == <<"Tuple3", A, B, C>>

\* element types that are not semigroups: i8, bool, &str, &[T]
I8 == <<"i8">>
Bool == <<"bool">>
Str == <<"str">>
Slice == <<"slice">>

NumericWrappers == {"Product", "Sum", "Min", "Max", "First", "Last"}

BoolWrappers == {"All", "Any"}

\* the types with `impl Semigroup`
RECURSIVE IsSemigroup(_)
IsSemigroup(t) ==
  CASE t[1] \in {"Unit", "String", "Vec"} -> TRUE
    [] t[1] \in NumericWrappers \cup BoolWrappers -> TRUE
    [] t[1] = "Option" -> IsSemigroup(t[2])
    [] t[1] \in {"Tuple1", "Tuple2", "Tuple3"} ->
         \A i \in 2..Len(t) : IsSemigroup(t[i])
    [] OTHER -> FALSE

\* the types with `impl Monoid`
RECURSIVE IsMonoid(_)
IsMonoid(t) ==
  CASE t[1] \in {"Unit", "String", "Vec"} -> TRUE
    [] t[1] \in {"Product", "Sum", "Min", "Max", "All", "Any"} -> TRUE
    [] t[1] = "Option" -> IsSemigroup(t[2])
    [] t[1] \in {"Tuple1", "Tuple2", "Tuple3"} ->
         \A i \in 2..Len(t) : IsMonoid(t[i])
    [] OTHER -> FALSE

\* R: Reducer<T>
RECURSIVE IsReducer(_, _)
IsReducer(R, T) ==
  CASE R[1] = "String" -> T = Str
    [] R[1] = "Vec" -> T = Slice
    [] R[1] = "Option" -> IsReducer(R[2], T)
    [] OTHER -> FALSE

(* ----------------------- traits.rs: Semigroup -------------------------- *)
RECURSIVE combine(_, _, _)
combine(t, a, b) ==
  CASE t[1] = "Unit" -> Returned(<<>>)
    [] t[1] = "Tuple1" -> TupleOf(<<combine(t[2], a[1], b[1])>>)
    [] t[1] = "Tuple2" ->
         TupleOf(<<combine(t[2], a[1], b[1]), combine(t[3], a[2], b[2])>>)
    [] t[1] = "Tuple3" ->
         TupleOf(<<combine(t[2], a[1], b[1]), combine(t[3], a[2], b[2]),
                   combine(t[4], a[3], b[3])>>)
    [] t[1] = "Option" ->
         IF a = None THEN Returned(b)
         ELSE IF b = None THEN Returned(Some(a[1]))
         ELSE Wrap(combine(t[2], a[1], b[1]))
    [] t[1] = "String" -> Returned(push_str(a, b))
    [] t[1] = "Vec" -> Returned(extend(a, b))
    [] t[1] = "Product" -> Wrap(arith(a[1] * b[1]))
    [] t[1] = "Sum" -> Wrap(arith(a[1] + b[1]))
    [] t[1] = "All" -> Returned(<<a[1] /\ b[1]>>)
    [] t[1] = "Any" -> Returned(<<a[1] \/ b[1]>>)
    [] t[1] = "Min" -> Returned(<<cmp_min(a[1], b[1])>>)
    [] t[1] = "Max" -> Returned(<<cmp_max(a[1], b[1])>>)
    [] t[1] = "First" -> Returned(a)
    [] t[1] = "Last" -> Returned(b)

\* combine applied to the outcomes of two argument expressions
combineO(t, ra, rb) ==
  IF ra = Panic \/ rb = Panic THEN Panic ELSE combine(t, ra[2], rb[2])

(* ------------------------ traits.rs: Monoid ---------------------------- *)
RECURSIVE unit(_)
\* mutation: the bounds of Min and Max are exchanged
unit_bug(t) ==
  CASE t[1] = "Unit" -> <<>>
    [] t[1] = "Tuple1" -> <<unit(t[2])>>
    [] t[1] = "Tuple2" -> <<unit(t[2]), unit(t[3])>>
    [] t[1] = "Tuple3" -> <<unit(t[2]), unit(t[3]), unit(t[4])>>
    [] t[1] = "Option" -> None
    [] t[1] = "String" -> <<>>
    [] t[1] = "Vec" -> <<>>
    [] t[1] = "Product" -> <<1>>
    [] t[1] = "Sum" -> <<0>>
    [] t[1] = "All" -> <<TRUE>>
    [] t[1] = "Any" -> <<FALSE>>
    [] t[1] = "Min" -> <<min_value>>
    [] t[1] = "Max" -> <<max_value>>

unit(t) ==
  CASE t[1] = "Unit" -> <<>>
    [] t[1] = "Tuple1" -> <<unit(t[2])>>
    [] t[1] = "Tuple2" -> <<unit(t[2]), unit(t[3])>>
    [] t[1] = "Tuple3" -> <<unit(t[2]), unit(t[3]), unit(t[4])>>
    [] t[1] = "Option" -> None
    [] t[1] = "String" -> <<>>
    [] t[1] = "Vec" -> <<>>
    [] t[1] = "Product" -> <<1>>
    [] t[1] = "Sum" -> <<0>>
    [] t[1] = "All" -> <<TRUE>>
    [] t[1] = "Any" -> <<FALSE>>
    [] t[1] = "Min" -> <<max_value>>
    [] t[1] = "Max" -> <<min_value>>

(* ------------------------ traits.rs: Reducer --------------------------- *)
RECURSIVE Reducer_unit(_, _)
Reducer_unit(R, value) ==
  CASE R[1] = "Option" -> Some(Reducer_unit(R[2], value))
    [] R[1] = "String" -> to_owned(value)
    [] R[1] = "Vec" -> to_owned(value)

\* the trait's default method bodies
default_combine_left(R, self, value) == combine(R, Reducer_unit(R, value), self)

default_combine_right(R, self, value) == combine(R, self, Reducer_unit(R, value))

RECURSIVE combine_left(_, _, _)
combine_left(R, self, value) ==
  CASE R[1] = "Option" ->
         IF self = None THEN Returned(Some(Reducer_unit(R[2], value)))
         ELSE Wrap(combine_left(R[2], self[1], value))
    [] R[1] = "String" -> default_combine_left(R, self, value)
    [] R[1] = "Vec" -> default_combine_left(R, self, value)

RECURSIVE combine_right(_, _, _)
\* mutation: the Option lift drops the value when the accumulator is None
combine_right_none(R, self, value) ==
  CASE R[1] = "Option" ->
         IF self = None THEN Returned(None)
         ELSE Wrap(combine_right(R[2], self[1], value))
    [] R[1] = "String" -> Returned(push_str(self, value))
    [] R[1] = "Vec" -> Returned(extend(self, value))

\* mutation: the Option lift delegates to the inner combine_left
combine_right_left(R, self, value) ==
  CASE R[1] = "Option" ->
         IF self = None THEN Returned(Some(Reducer_unit(R[2], value)))
         ELSE Wrap(combine_left(R[2], self[1], value))
    [] R[1] = "String" -> Returned(push_str(self, value))
    [] R[1] = "Vec" -> Returned(extend(self, value))

combine_right(R, self, value) ==
  CASE R[1] = "Option" ->
         IF self = None THEN Returned(Some(Reducer_unit(R[2], value)))
         ELSE Wrap(combine_right(R[2], self[1], value))
    [] R[1] = "String" -> Returned(push_str(self, value))
    [] R[1] = "Vec" -> Returned(extend(self, value))

(* --------------------------- iter.rs ----------------------------------- *)
\* Iterator::fold(init, g) with g one of Semigroup::combine,
\* Reducer::combine_right; a panic in g unwinds out of the loop
RECURSIVE fold(_, _, _, _)
fold(it, init, g, t) ==
  IF it = <<>> THEN Returned(init)
  ELSE LET r == IF g = "combine" THEN combine(t, init, Head(it))
                ELSE combine_right(t, init, Head(it))
       IN IF r = Panic THEN Panic ELSE fold(Tail(it), r[2], g, t)

\* the closures passed to fold_map: a wrapper constructor (`All`, `Sum`, ..)
\* or the reducer injection Reducer::unit into f[2]
apply(f, x) == IF f[1] = "ctor" THEN <<x>> ELSE Reducer_unit(f[2], x)

map(it, f) == [i \in 1..Len(it) |-> apply(f, it[i])]

\* mutation: the operands of combine are exchanged at every step
fold_monoid_bug(t, it) ==
  fold([i \in 1..Len(it) |-> it[Len(it) + 1 - i]], unit(t), "combine", t)

fold_monoid(t, it) == fold(it, unit(t), "combine", t)

\* mutation: the first element is read without advancing the iterator
fold_nonempty_bug(t, it) ==
  IF it = <<>> THEN Returned(None)
  ELSE Wrap(fold(it, Head(it), "combine", t))

fold_nonempty(t, it) ==
  IF it = <<>> THEN Returned(None)
  ELSE Wrap(fold(Tail(it), Head(it), "combine", t))

fold_map(A, f, it) == fold_monoid(A, map(it, f))

fold_map_nonempty(A, f, it) == fold_nonempty(A, map(it, f))

\* mutation: the first element is consumed and not injected
fold_reduce_bug(R, it) ==
  IF it = <<>> THEN Returned(unit(R))
  ELSE fold(Tail(it), unit(R), "combine_right", R)

fold_reduce(R, it) ==
  IF it = <<>> THEN Returned(unit(R))
  ELSE fold(Tail(it), Reducer_unit(R, Head(it)), "combine_right", R)

fold_reduce_nonempty(R, it) ==
  IF it = <<>> THEN Returned(None)
  ELSE Wrap(fold(Tail(it), Reducer_unit(R, Head(it)), "combine_right", R))

(* ------------------------- input domains ------------------------------- *)
Ints == ((0 - Small)..Small) \cup {min_value, max_value}

Chars == {"a", "b"}

VecElems == {1, 2}

SeqsUpTo(S, n) == UNION {[1..k -> S] : k \in 0..n}

RECURSIVE Values(_)
Values(t) ==
  CASE t[1] \in NumericWrappers -> {<<n>> : n \in Ints}
    [] t[1] \in BoolWrappers -> {<<x>> : x \in BOOLEAN}
    [] t[1] = "i8" -> Ints
    [] t[1] = "bool" -> BOOLEAN
    [] t[1] \in {"String", "str"} -> SeqsUpTo(Chars, MaxStr)
    [] t[1] \in {"Vec", "slice"} -> SeqsUpTo(VecElems, MaxStr)
    [] t[1] = "Unit" -> {<<>>}
    [] t[1] = "Option" -> {None} \cup {Some(x) : x \in Values(t[2])}
    [] t[1] = "Tuple1" -> {<<x>> : x \in Values(t[2])}
    [] t[1] = "Tuple2" -> {<<x, y>> : x \in Values(t[2]), y \in Values(t[3])}
    [] t[1] = "Tuple3" ->
         {<<x, y, z>> : x \in Values(t[2]), y \in Values(t[3]), z \in Values(t[4])}

ReducerTypes ==
  {String, Vec, Option(String), Option(Vec), Option(Option(String))}

\* the element type T of the reducer R: Reducer<T>
ItemOf(R) == IF IsReducer(R, Str) THEN Str ELSE Slice

MapFns(t) ==
  CASE t = I8 -> {<<"ctor", W>> : W \in {Product, Sum, Min, Max, First, Last}}
    [] t = Bool -> {<<"ctor", W>> : W \in {All, Any}}
    [] t \in {Str, Slice} ->
         {<<"Reducer::unit", R>> : R \in {X \in ReducerTypes : IsReducer(X, t)}}
    [] OTHER -> {}

\* item types of the iterators that are folded
FoldItemTypes ==
  {Unit, String, Vec, Product, Sum, All, Any, Min, Max, First, Last,
   Option(Last), Option(String), Tuple2(All, Any), Tuple1(Any),
   Tuple3(Unit, All, Unit), I8, Bool, Str, Slice}

(* ------------------ the folds as a state machine ----------------------- *)
\* a program holds an iterator over items of type ty; one fold consumes it
Init ==
  /\ overflowChecks \in BOOLEAN
  /\ ty \in FoldItemTypes
  /\ iter \in SeqsUpTo(Values(ty), MaxLen)
  /\ args = Nil
  /\ op = "none"
  /\ target = Nil
  /\ result = Nil
  /\ pc = "ready"

Finish(name, tgt, r) ==
  /\ op' = name
  /\ target' = tgt
  /\ result' = r
  /\ pc' = IF r = Panic THEN "panicked" ELSE "returned"
  /\ UNCHANGED <<overflowChecks, ty, iter, args>>

Call_fold_monoid ==
  /\ pc = "ready"
  /\ IsMonoid(ty)
  /\ Finish("fold_monoid", ty, fold_monoid(ty, iter))

Call_fold_nonempty ==
  /\ pc = "ready"
  /\ IsSemigroup(ty)
  /\ Finish("fold_nonempty", ty, fold_nonempty(ty, iter))

Call_fold_map ==
  /\ pc = "ready"
  /\ \E f \in MapFns(ty) :
       /\ IsMonoid(f[2])
       /\ Finish("fold_map", f, fold_map(f[2], f, iter))

Call_fold_map_nonempty ==
  /\ pc = "ready"
  /\ \E f \in MapFns(ty) :
       /\ IsSemigroup(f[2])
       /\ Finish("fold_map_nonempty", f, fold_map_nonempty(f[2], f, iter))

Call_fold_reduce ==
  /\ pc = "ready"
  /\ \E R \in ReducerTypes :
       /\ IsReducer(R, ty)
       /\ IsMonoid(R)
       /\ Finish("fold_reduce", R, fold_reduce(R, iter))

Call_fold_reduce_nonempty ==
  /\ pc = "ready"
  /\ \E R \in ReducerTypes :
       /\ IsReducer(R, ty)
       /\ Finish("fold_reduce_nonempty", R, fold_reduce_nonempty(R, iter))

Next ==
  \/ Call_fold_monoid
  \/ Call_fold_nonempty
  \/ Call_fold_map
  \/ Call_fold_map_nonempty
  \/ Call_fold_reduce
  \/ Call_fold_reduce_nonempty

Spec == Init /\ [][Next]_vars

(* --------------- the algebraic laws as a state machine ----------------- *)
LawTypes ==
  {Unit, Tuple1(Sum), Tuple2(Any, Product), Tuple2(All, Last),
   Tuple3(Any, Min, Unit), Option(First), Option(Sum), Option(String),
   Option(Vec), Option(Option(String)), String, Vec, Product, Sum, All, Any,
   Min, Max, First, Last}

\* the inputs: <<a, b, c>> or <<x>> of type ty, <<s, v>> for a reducer ty
\* and an element v
LawInit ==
  /\ overflowChecks \in BOOLEAN
  /\ ty \in LawTypes
  /\ \/ \E a \in Values(ty), b \in Values(ty), c \in Values(ty) : args = <<a, b, c>>
     \/ \E x \in Values(ty) : args = <<x>>
     \/ /\ ty \in ReducerTypes
        /\ \E s \in Values(ty), v \in Values(ItemOf(ty)) : args = <<s, v>>
  /\ iter = Nil
  /\ op = "none"
  /\ target = Nil
  /\ result = Nil
  /\ pc = "ready"

Evaluated(name, rs) ==
  /\ op' = name
  /\ result' = rs
  /\ pc' = IF \E i \in DOMAIN rs : rs[i] = Panic THEN "panicked" ELSE "returned"
  /\ UNCHANGED <<overflowChecks, ty, iter, args, target>>

\* combine(combine(a, b), c)
Eval_combine_combine ==
  /\ pc = "ready"
  /\ Len(args) = 3
  /\ IsSemigroup(ty)
  /\ Evaluated("combine_combine",
               <<combineO(ty, combine(ty, args[1], args[2]), Returned(args[3]))>>)

\* combine(unit(), x) and combine(x, unit())
Eval_combine_unit ==
  /\ pc = "ready"
  /\ Len(args) = 1
  /\ IsMonoid(ty)
  /\ Evaluated("combine_unit",
               <<combine(ty, unit(ty), args[1]), combine(ty, args[1], unit(ty))>>)

\* s.combine_right(v) and s.combine_left(v)
Eval_reducer ==
  /\ pc = "ready"
  /\ Len(args) = 2
  /\ ty \in ReducerTypes
  /\ Evaluated("reducer",
               <<combine_right(ty, args[1], args[2]),
                 combine_left(ty, args[1], args[2])>>)

LawNext ==
  \/ Eval_combine_combine
  \/ Eval_combine_unit
  \/ Eval_reducer

LawSpec == LawInit /\ [][LawNext]_vars

(* ------------------------- claims: helpers ----------------------------- *)
Front(xs) == SubSeq(xs, 1, Len(xs) - 1)

Final(xs) == xs[Len(xs)]

\* combine(...combine(combine(seed, x1), x2)..., xn)
RECURSIVE LeftNested(_, _, _)
LeftNested(t, seed, xs) ==
  IF xs = <<>> THEN Returned(seed)
  ELSE combineO(t, LeftNested(t, seed, Front(xs)), Returned(Final(xs)))

\* the accumulator seeded with seed after combine_right of x1, .., xn
RECURSIVE RightPushed(_, _, _)
RightPushed(R, seed, xs) ==
  IF xs = <<>> THEN Returned(seed)
  ELSE LET r == RightPushed(R, seed, Front(xs))
       IN IF r = Panic THEN Panic ELSE combine_right(R, r[2], Final(xs))

RECURSIVE Concat(_)
Concat(xs) == IF xs = <<>> THEN <<>> ELSE Head(xs) \o Concat(Tail(xs))

Inner(xs) == {xs[i][1] : i \in 1..Len(xs)}

Least(S) == CHOOSE m \in S : \A x \in S : m <= x

Greatest(S) == CHOOSE m \in S : \A x \in S : m >= x

(* ------------------------------ claims --------------------------------- *)
\* C1: combine_right(s, v) = combine(s, Reducer::unit(v)) and
\* combine_left(s, v) = combine(Reducer::unit(v), s) for String, Vec and the
\* Option lift, s = None and empty s, v included.
C1_ReducerEquivalence ==
  op = "reducer" =>
    result = <<combine(ty, args[1], Reducer_unit(ty, args[2])),
               combine(ty, Reducer_unit(ty, args[2]), args[1])>>

C1_Witness ==
  /\ op = "reducer"
  /\ ty = Option(String)
  /\ args = <<None, <<"a">> >>
  /\ result = <<Returned(Some(<<"a">>)), Returned(Some(<<"a">>))>>

\* C2: fold_reduce::<R>(xs) = fold_map(Reducer::unit) over xs; on the empty
\* sequence it is Monoid::unit(); for String it is the left-to-right
\* concatenation of the elements.
C2_FoldReduceIsFoldMap ==
  op = "fold_reduce" =>
    /\ result = fold_map(target, <<"Reducer::unit", target>>, iter)
    /\ iter = <<>> => result = Returned(unit(target))
    /\ target = String => result = Returned(Concat(iter))

C2_Witness ==
  /\ op = "fold_reduce"
  /\ target = String
  /\ iter = << <<"a">>, <<"b">>, <<"a">> >>
  /\ result = Returned(<<"a", "b", "a">>)

\* C3: fold_monoid(x1..xn) = combine(...combine(combine(unit(), x1), x2)..., xn),
\* and unit() on the empty sequence.
C3_FoldMonoidLeftNested ==
  op = "fold_monoid" =>
    /\ result = LeftNested(ty, unit(ty), iter)
    /\ iter = <<>> => result = Returned(unit(ty))

C3_Witness ==
  /\ op = "fold_monoid"
  /\ ty = String
  /\ iter = << <<"b">>, <<>>, <<"a">> >>
  /\ result = Returned(<<"b", "a">>)

\* C4: fold_nonempty returns None iff the sequence is empty, otherwise
\* Some(combine(...combine(x1, x2)..., xn)); over First it is the first
\* element, over Last the last element.
C4_FoldNonempty ==
  op = "fold_nonempty" =>
    /\ result = Returned(None) <=> iter = <<>>
    /\ iter # <<>> => result = Wrap(LeftNested(ty, Head(iter), Tail(iter)))
    /\ (ty = First /\ iter # <<>>) => result = Returned(Some(Head(iter)))
    /\ (ty = Last /\ iter # <<>>) => result = Returned(Some(Final(iter)))

C4_Witness ==
  /\ op = "fold_nonempty"
  /\ ty = Last
  /\ iter = << <<1>>, <<2>>, <<0>> >>
  /\ result = Returned(Some(<<0>>))

\* C5: combine(combine(a, b), c) = combine(a, combine(b, c)) for every
\* Semigroup instance and all a, b, c.
C5_Associativity ==
  op = "combine_combine" =>
    result = <<combineO(ty, Returned(args[1]), combine(ty, args[2], args[3]))>>

\* C6: combine(unit(), x) = x and combine(x, unit()) = x for every Monoid
\* instance and every x.
C6_Identity ==
  op = "combine_unit" => result = <<Returned(args[1]), Returned(args[1])>>

C6_Witness ==
  /\ op = "combine_unit"
  /\ ty = Tuple3(Any, Min, Unit)
  /\ args = << << <<TRUE>>, <<1>>, <<>> >> >>
  /\ result[1] = Returned(args[1])

\* C7: combine on Sum and Product never fails, so fold_monoid and
\* fold_nonempty over Sum or Product values return a value.
C7_NumericTotal ==
  (op \in {"fold_monoid", "fold_nonempty"} /\ ty \in {Sum, Product}) =>
    pc = "returned"

\* C8: fold_monoid over Min values is Min of the least element and
\* Min(max_value) on the empty sequence; over Max values it is Max of the
\* greatest element and Max(min_value) on the empty sequence.
C8_MinMaxFold ==
  op = "fold_monoid" =>
    /\ ty = Min =>
         result = Returned(<<IF iter = <<>> THEN max_value ELSE Least(Inner(iter))>>)
    /\ ty = Max =>
         result = Returned(<<IF iter = <<>> THEN min_value ELSE Greatest(Inner(iter))>>)

C8_Witness ==
  /\ op = "fold_monoid"
  /\ ty = Min
  /\ iter = << <<2>>, <<max_value>>, <<1>> >>
  /\ result = Returned(<<1>>)

\* C10: fold_reduce::<Option<R>>(xs) = fold_reduce_nonempty::<R>(xs): None
\* exactly when xs is empty, otherwise Some(r) with r seeded by
\* Reducer::unit(first) and extended by R's combine_right in order.
C10_OptionLiftAgrees ==
  (op = "fold_reduce" /\ target[1] = "Option") =>
    /\ result = fold_reduce_nonempty(target[2], iter)
    /\ result = Returned(None) <=> iter = <<>>
    /\ iter # <<>> =>
         result = Wrap(RightPushed(target[2],
                                   Reducer_unit(target[2], Head(iter)), Tail(iter)))

C10_Witness ==
  /\ op = "fold_reduce"
  /\ target = Option(String)
  /\ iter = << <<"a">>, <<"b">> >>
  /\ result = Returned(Some(<<"a", "b">>))
====
